---- MODULE Spec2Model ----
(***************************************************************************)
(* Perlin-noise terrain: the noise primitive noiseValue (permutation-table *)
(* hashing, fade, gradient dot products, bilinear interpolation) and the   *)
(* six-octave height composition of main, from src/src/main.cpp.           *)
(*                                                                         *)
(* Real numbers are exact rationals <<n, d>> in lowest terms (d > 0).      *)
(* A float argument is a record [num, scale, den] standing for             *)
(* num * scale / den: scale is 1 for ordinary values and 256 for values so *)
(* large that binary32 only holds multiples of 256 (|x| >= 2^31), which    *)
(* keeps every integer of the model inside 32 bits.  The float-to-int      *)
(* conversion keeps its 32-bit width, and the float subtraction            *)
(* x - floor(x) keeps its 24-bit significand; the remaining arithmetic     *)
(* (fade, dot products, lerp) is taken as exact.                           *)
(***************************************************************************)
EXTENDS Integers, Sequences, FiniteSets

VARIABLES x, z, pc, loc, ub, prev, ncalls, vx, vz, vertex, host

vars == <<x, z, pc, loc, ub, prev, ncalls, vx, vz, vertex, host>>

(* ---------------------------- bounds ---------------------------------- *)

\* Largest denominator of the fractional part of a sampled coordinate.
MaxDen == 4

\* Number of successive noiseValue calls followed in one behaviour.
MaxCalls == 2

\* Largest denominator d of a vertex position 256 * k / d.
MaxPosDen == 3

\* Vertex positions 256 * k / d are taken for k in -MaxPosNum..MaxPosNum.
MaxPosNum == 4

(* ------------------------ machine constants --------------------------- *)

\* Significand width of the float type of x and z.
FloatMantissaBits == 24

INT_MAX == 2147483647

INT_MIN == -2147483647 - 1

(* ------------------------- exact rationals ---------------------------- *)

Abs(a) == IF a < 0 THEN -a ELSE a

RECURSIVE GCD(_, _)
GCD(a, b) == IF b = 0 THEN a ELSE GCD(b, a % b)

Norm(n, d) ==
    LET g == GCD(Abs(n), d) IN <<n \div g, d \div g>>

RInt(k) == <<k, 1>>

RNeg(a) == <<-a[1], a[2]>>

RAdd(a, b) ==
    LET g == GCD(a[2], b[2])
        l == (a[2] \div g) * b[2]
    IN Norm(a[1] * (l \div a[2]) + b[1] * (l \div b[2]), l)

RSub(a, b) == RAdd(a, RNeg(b))

RMul(a, b) ==
    LET g1 == GCD(Abs(a[1]), b[2])
        g2 == GCD(Abs(b[1]), a[2])
    IN Norm((a[1] \div g1) * (b[1] \div g2), (a[2] \div g2) * (b[2] \div g1))

RLeq(a, b) == RSub(b, a)[1] >= 0

RLess(a, b) == RSub(b, a)[1] > 0

(* --------------------------- the table -------------------------------- *)

permutationTable == <<
    151, 160, 137, 91, 90, 15, 131, 13, 201, 95, 96, 53, 194, 233, 7, 225,
    140, 36, 103, 30, 69, 142, 8, 99, 37, 240, 21, 10, 23, 190, 6, 148,
    247, 120, 234, 75, 0, 26, 197, 62, 94, 252, 219, 203, 117, 35, 11, 32,
    57, 177, 33, 88, 237, 149, 56, 87, 174, 20, 125, 136, 171, 168, 68, 175,
    74, 165, 71, 134, 139, 48, 27, 166, 77, 146, 158, 231, 83, 111, 229, 122,
    60, 211, 133, 230, 220, 105, 92, 41, 55, 46, 245, 40, 244, 102, 143, 54,
    65, 25, 63, 161, 1, 216, 80, 73, 209, 76, 132, 187, 208, 89, 18, 169,
    200, 196, 135, 130, 116, 188, 159, 86, 164, 100, 109, 198, 173, 186, 3, 64,
    52, 217, 226, 250, 124, 123, 5, 202, 38, 147, 118, 126, 255, 82, 85, 212,
    207, 206, 59, 227, 47, 16, 58, 17, 182, 189, 28, 42, 223, 183, 170, 213,
    119, 248, 152, 2, 44, 154, 163, 70, 221, 153, 101, 155, 167, 43, 172, 9,
    129, 22, 39, 253, 19, 98, 108, 110, 79, 113, 224, 232, 178, 185, 112, 104,
    218, 246, 97, 228, 251, 34, 242, 193, 238, 210, 144, 12, 191, 179, 162, 241,
    81, 51, 145, 235, 249, 14, 239, 107, 49, 192, 214, 31, 181, 199, 106, 157,
    184, 84, 204, 176, 115, 121, 50, 45, 127, 4, 150, 254, 138, 236, 205, 93,
    222, 114, 67, 29, 24, 72, 243, 141, 128, 195, 78, 66, 215, 61, 156, 180,
    151, 160, 137, 91, 90, 15, 131, 13, 201, 95, 96, 53, 194, 233, 7, 225,
    140, 36, 103, 30, 69, 142, 8, 99, 37, 240, 21, 10, 23, 190, 6, 148,
    247, 120, 234, 75, 0, 26, 197, 62, 94, 252, 219, 203, 117, 35, 11, 32,
    57, 177, 33, 88, 237, 149, 56, 87, 174, 20, 125, 136, 171, 168, 68, 175,
    74, 165, 71, 134, 139, 48, 27, 166, 77, 146, 158, 231, 83, 111, 229, 122,
    60, 211, 133, 230, 220, 105, 92, 41, 55, 46, 245, 40, 244, 102, 143, 54,
    65, 25, 63, 161, 1, 216, 80, 73, 209, 76, 132, 187, 208, 89, 18, 169,
    200, 196, 135, 130, 116, 188, 159, 86, 164, 100, 109, 198, 173, 186, 3, 64,
    52, 217, 226, 250, 124, 123, 5, 202, 38, 147, 118, 126, 255, 82, 85, 212,
    207, 206, 59, 227, 47, 16, 58, 17, 182, 189, 28, 42, 223, 183, 170, 213,
    119, 248, 152, 2, 44, 154, 163, 70, 221, 153, 101, 155, 167, 43, 172, 9,
    129, 22, 39, 253, 19, 98, 108, 110, 79, 113, 224, 232, 178, 185, 112, 104,
    218, 246, 97, 228, 251, 34, 242, 193, 238, 210, 144, 12, 191, 179, 162, 241,
    81, 51, 145, 235, 249, 14, 239, 107, 49, 192, 214, 31, 181, 199, 106, 157,
    184, 84, 204, 176, 115, 121, 50, 45, 127, 4, 150, 254, 138, 236, 205, 93,
    222, 114, 67, 29, 24, 72, 243, 141, 128, 195, 78, 66, 215, 61, 156, 180
>>

\* The table with its second half one entry out of step with the first.
PermShiftedCopy(i) == permutationTable[IF i >= 256 THEN i - 254 ELSE i + 1]

\* The table holding a permutation of 1..256 instead of 0..255.
PermOneBased(i) == permutationTable[i + 1] + 1

\* permutationTable[i] of the source (0-based).
Perm(i) == permutationTable[i + 1]

(* ------------------- float and int representation -------------------- *)

RECURSIVE BitLen(_)
BitLen(n) == IF n <= 0 THEN 0 ELSE 1 + BitLen(n \div 2)

RECURSIVE IsPow2(_)
IsPow2(d) == IF d = 1 THEN TRUE ELSE (d % 2 = 0 /\ IsPow2(d \div 2))

\* FloorF rounding toward zero, as (int)x without the floor would.
TruncF(f) ==
    IF f.den = 1 THEN f
    ELSE [num |-> IF f.num < 0 THEN -((-f.num) \div f.den)
                  ELSE f.num \div f.den,
          scale |-> 1, den |-> 1]

\* floor(x) of the C library: the largest integral float not above x.
FloorF(f) ==
    IF f.den = 1 THEN f
    ELSE [num |-> f.num \div f.den, scale |-> 1, den |-> 1]

\* An integral float whose value is representable in a 32-bit int.
InIntRange(f) ==
    /\ f.num >= INT_MIN \div f.scale
    /\ f.num <= INT_MAX \div f.scale

\* (int)f for an integral float f.  Out of the int range the conversion is
\* undefined: the build answers INT_MIN (cvttss2si at run time) or saturates
\* to the nearer end of the range (constant folding, saturating hardware).
FloatToInt(f) ==
    IF InIntRange(f) THEN {f.num * f.scale}
    ELSE IF f.num < 0 THEN {INT_MIN}
    ELSE {INT_MIN, INT_MAX}

\* Round a non-negative dyadic rational to FloatMantissaBits significant
\* bits, ties to even.  Rationals with another denominator stand for
\* values whose arithmetic is taken as exact.
FloatRound(r) ==
    IF IsPow2(r[2]) /\ BitLen(r[1]) > FloatMantissaBits
    THEN LET step == 2 ^ (BitLen(r[1]) - FloatMantissaBits)
             q == r[1] \div step
             rem == r[1] % step
             up == IF 2 * rem > step \/ (2 * rem = step /\ q % 2 = 1)
                   THEN 1 ELSE 0
         IN Norm((q + up) * step, r[2])
    ELSE r

\* The float subtraction x - floor(x), fl being floor(f).
FloatSub(f, fl) ==
    IF f.den = 1 THEN RInt(0)
    ELSE FloatRound(Norm(f.num - fl.num * f.den, f.den))

\* Bit i of the 32-bit two's complement representation of n.
Bit(n, i) ==
    IF n >= 0 THEN (n \div (2 ^ i)) % 2
    ELSE 1 - (((-(n + 1)) \div (2 ^ i)) % 2)

RECURSIVE BitAndFrom(_, _, _)
BitAndFrom(a, b, i) ==
    IF i > 30 \/ b \div (2 ^ i) = 0 THEN 0
    ELSE Bit(a, i) * Bit(b, i) * (2 ^ i) + BitAndFrom(a, b, i + 1)

\* a & b for an int a and a non-negative mask b.
BitAnd(a, b) == BitAndFrom(a, b, 0)

(* ------------------------ the noise functions ------------------------- *)

\* lerp with the weight of b left out.
lerpUnweighted(w, a, b) == RAdd(RMul(a, RSub(RInt(1), w)), b)

\* lerp with a and b exchanged.
lerpSwapped(w, a, b) == RAdd(RMul(b, RSub(RInt(1), w)), RMul(a, w))

lerp(w, a, b) == RAdd(RMul(a, RSub(RInt(1), w)), RMul(b, w))

\* The cubic smoothstep in place of the quintic.
fadeCubic(t) == RMul(RMul(t, t), RSub(RInt(3), RMul(RInt(2), t)))

fade(t) ==
    RMul(RMul(RMul(t, t), t),
         RAdd(RMul(t, RSub(RMul(t, RInt(6)), RInt(15))), RInt(10)))

\* gradientDotDistance with case 2 returning the sum of case 0.
gradientDotDistanceCase2(hash, xOffset, zOffset) ==
    CASE hash = 0 -> RAdd(xOffset, zOffset)
      [] hash = 1 -> RAdd(RNeg(xOffset), zOffset)
      [] hash = 2 -> RAdd(xOffset, zOffset)
      [] hash = 3 -> RSub(RNeg(xOffset), zOffset)
      [] hash = 4 -> xOffset
      [] hash = 5 -> zOffset
      [] hash = 6 -> RNeg(xOffset)
      [] hash = 7 -> RNeg(zOffset)

gradientDotDistance(hash, xOffset, zOffset) ==
    CASE hash = 0 -> RAdd(xOffset, zOffset)
      [] hash = 1 -> RAdd(RNeg(xOffset), zOffset)
      [] hash = 2 -> RSub(xOffset, zOffset)
      [] hash = 3 -> RSub(RNeg(xOffset), zOffset)
      [] hash = 4 -> xOffset
      [] hash = 5 -> zOffset
      [] hash = 6 -> RNeg(xOffset)
      [] hash = 7 -> RNeg(zOffset)

\* noiseValue from the dot products to the return, for the four masked
\* hashes of the corners and the offsets (fx, fz) inside the cell.
Blend(hashBottomLeft, hashBottomRight, hashTopLeft, hashTopRight, fx, fz) ==
    LET u == fade(fx)
        v == fade(fz)
        dotBottomLeft == gradientDotDistance(hashBottomLeft, fx, fz)
        dotBottomRight ==
            gradientDotDistance(hashBottomRight, RSub(fx, RInt(1)), fz)
        dotTopLeft ==
            gradientDotDistance(hashTopLeft, fx, RSub(fz, RInt(1)))
        dotTopRight ==
            gradientDotDistance(hashTopRight,
                                RSub(fx, RInt(1)), RSub(fz, RInt(1)))
    IN [u |-> u, v |-> v,
        dotBottomLeft |-> dotBottomLeft,
        dotBottomRight |-> dotBottomRight,
        dotTopLeft |-> dotTopLeft,
        dotTopRight |-> dotTopRight,
        result |-> RAdd(RMul(<<1, 2>>,
                             lerp(v, lerp(u, dotBottomLeft, dotBottomRight),
                                     lerp(u, dotTopLeft, dotTopRight))),
                        <<1, 2>>)]

\* noiseValue after the cell (gridX, gridZ) and the offsets (fx, fz) are
\* known: the table lookups, then the blend.  The record holds the locals
\* at the return.
Interpolate(gridX, gridZ, fx, fz) ==
    LET gradientBottomLeft == Perm(Perm(gridX) + gridZ)
        gradientBottomRight == Perm(Perm(gridX + 1) + gridZ)
        gradientTopLeft == Perm(Perm(gridX) + gridZ + 1)
        gradientTopRight == Perm(Perm(gridX + 1) + gridZ + 1)
        b == Blend(BitAnd(gradientBottomLeft, 7),
                   BitAnd(gradientBottomRight, 7),
                   BitAnd(gradientTopLeft, 7),
                   BitAnd(gradientTopRight, 7), fx, fz)
    IN [gridX |-> gridX, gridZ |-> gridZ, fx |-> fx, fz |-> fz,
        u |-> b.u, v |-> b.v,
        gradientBottomLeft |-> gradientBottomLeft,
        gradientBottomRight |-> gradientBottomRight,
        gradientTopLeft |-> gradientTopLeft,
        gradientTopRight |-> gradientTopRight,
        dotBottomLeft |-> b.dotBottomLeft,
        dotBottomRight |-> b.dotBottomRight,
        dotTopLeft |-> b.dotTopLeft,
        dotTopRight |-> b.dotTopRight,
        result |-> b.result]

\* noiseValue(x, z): ix and iz are the values the two float-to-int
\* conversions produced.
noiseValue(xa, za, ix, iz) ==
    Interpolate(BitAnd(ix, 255), BitAnd(iz, 255),
                FloatSub(xa, FloorF(xa)), FloatSub(za, FloorF(za)))

(* ------------------------ the height of a vertex ---------------------- *)

\* The float argument holding the rational r.
AsFloat(r) == [num |-> r[1], scale |-> 1, den |-> r[2]]

\* noiseValue(a, b) for arguments whose floors fit an int.
NoiseResult(a, b) ==
    LET xa == AsFloat(a)
        za == AsFloat(b)
    IN noiseValue(xa, za, FloorF(xa).num, FloorF(za).num).result

(* ------------------------------ inputs -------------------------------- *)

Fractions(D) ==
    {f \in (0..D) \X (1..D) : f[1] < f[2] /\ GCD(f[1], f[2]) = 1}

SmallWholes == {-257, -1, 0, 1, 255}

\* w + n/d for a small whole part w.
SmallInputs ==
    {[num |-> w * f[2] + f[1], scale |-> 1, den |-> f[2]] :
        w \in SmallWholes, f \in Fractions(MaxDen)}

\* Negative values too close to zero for 1 + x to be below 1 in a float.
TinyInputs ==
    {[num |-> -1, scale |-> 1, den |-> 2 ^ e] :
        e \in {FloatMantissaBits + 1, FloatMantissaBits + 2}}

\* Integral values near the ends of the int range, low byte not zero.
EdgeInputs ==
    {[num |-> n, scale |-> 1, den |-> 1] : n \in {INT_MIN + 128, INT_MAX - 127}}

\* Multiples of 256 at and beyond the ends of the int range.
BigInputs ==
    {[num |-> m, scale |-> 256, den |-> 1] :
        m \in {INT_MIN \div 256 - 1, INT_MIN \div 256,
               INT_MAX \div 256, INT_MAX \div 256 + 1}}

Inputs == SmallInputs \cup TinyInputs \cup EdgeInputs \cup BigInputs

\* Offsets sampled in every cell of the lattice.
LatticeOffsets == {<<RInt(0), <<1, 2>>>>, <<<<1, 2>>, RInt(0)>>}

LatticeInput(c, f) == [num |-> c * f[2] + f[1], scale |-> 1, den |-> f[2]]

Positions ==
    {Norm(256 * k, d) : k \in (-MaxPosNum)..MaxPosNum, d \in 1..MaxPosDen}

NoLocals == Interpolate(0, 0, RInt(0), RInt(0))

NoVertex == [terms |-> <<>>, sum |-> RInt(0),
             y |-> [pow |-> <<RInt(0), <<12, 10>>>>, minus |-> 140]]

ZeroArg == [num |-> 0, scale |-> 1, den |-> 1]

(* ------------------------------ the host loop ------------------------- *)

\* Frames run before the window is closed.
MaxFrames == 3

\* Side of the corner of the mapSize x mapSize grid that is kept in the state.
MaxGrid == 2

Grid == (0..(MaxGrid - 1)) \X (0..(MaxGrid - 1))

MoveKeys == {"W", "S", "A", "D"}

LiftKeys == {"SPACE", "LEFT_SHIFT"}

TurnKeys == {"UP", "DOWN", "RIGHT", "LEFT"}

\* Key states polled in one frame: nothing, each key alone, some chords.
KeySets ==
    {{}} \cup {{k} : k \in MoveKeys \cup LiftKeys \cup TurnKeys}
         \cup {{"W", "S"}, {"A", "D"}, {"W", "RIGHT"}, {"D", "SPACE"}, {"UP", "LEFT"}}

\* deltaTime in units of 0.9 s: movementSpeed is 9 units and turnSpeed is 90
\* degrees per unit, so that the cosines and sines of the yaw stay exact.
DeltaTicks == {0, 1}

Cos90(deg) ==
    CASE deg % 360 = 0 -> 1
      [] deg % 360 = 90 -> 0
      [] deg % 360 = 180 -> -1
      [] deg % 360 = 270 -> 0

Sin90(deg) == Cos90(deg - 90)

\* The y a vertex is constructed with.
FlatY == <<"flat", 0, 0>>

\* The y the grid loop stores for a vertex at (xPosition, zPosition): the
\* six-octave height of ComputeVertex, a function of the position alone.
HeightAt(xPosition, zPosition) == <<"height", xPosition, zPosition>>

\* The state main() enters its loop with.
HostStart ==
    [xOffset |-> 0, zOffset |-> 0, updateVertices |-> TRUE,
     vertices |-> [v \in Grid |-> FlatY], buffer |-> [v \in Grid |-> FlatY],
     yaw |-> 0, pitch |-> 0, y |-> 10,
     keys |-> {}, frames |-> 0, uploads |-> 0, drawn |-> [v \in Grid |-> FlatY]]

(* --------------------------- the state machine ------------------------ *)

NoiseIdle ==
    /\ pc = "call"
    /\ loc = NoLocals
    /\ ub = FALSE
    /\ prev = RInt(0)
    /\ ncalls = 0

VertexIdle ==
    /\ vx = RInt(0)
    /\ vz = RInt(0)
    /\ vertex = NoVertex

HostIdle == host = HostStart

\* A first call of noiseValue with arguments (x, z).
Init ==
    /\ x \in Inputs
    /\ z \in Inputs
    /\ NoiseIdle
    /\ VertexIdle
    /\ HostIdle

\* A first call of noiseValue in any cell of the lattice.
InitLattice ==
    /\ \E cx \in 0..255, cz \in 0..255, o \in LatticeOffsets :
          /\ x = LatticeInput(cx, o[1])
          /\ z = LatticeInput(cz, o[2])
    /\ NoiseIdle
    /\ VertexIdle
    /\ HostIdle

\* A vertex of the grid about to be given its height.
InitHeight ==
    /\ x = ZeroArg
    /\ z = ZeroArg
    /\ NoiseIdle
    /\ vx \in Positions
    /\ vz \in Positions
    /\ vertex = NoVertex
    /\ HostIdle

\* main() about to enter its frame loop.
InitHost ==
    /\ x = ZeroArg
    /\ z = ZeroArg
    /\ NoiseIdle
    /\ VertexIdle
    /\ HostIdle

\* x + 256 is computed without rounding.
PeriodShiftExact(f) ==
    \/ f.scale = 256
    \/ f.den <= 2 ^ (FloatMantissaBits - 9) /\ f.num < 2 ^ 30

AddPeriod(f) ==
    IF f.scale = 256 THEN [f EXCEPT !.num = @ + 1]
    ELSE [f EXCEPT !.num = @ + 256 * f.den]

\* One call noiseValue(x, z), from entry to return.
NoiseValue ==
    /\ pc = "call"
    /\ \E ix \in FloatToInt(FloorF(x)), iz \in FloatToInt(FloorF(z)) :
          loc' = noiseValue(x, z, ix, iz)
    /\ ub' = (ub \/ ~InIntRange(FloorF(x)) \/ ~InIntRange(FloorF(z)))
    /\ ncalls' = ncalls + 1
    /\ pc' = "done"
    /\ UNCHANGED <<x, z, prev, vx, vz, vertex, host>>

\* The caller keeps the value returned and calls again one period further
\* along x.
NextCall ==
    /\ pc = "done"
    /\ ncalls < MaxCalls
    /\ PeriodShiftExact(x)
    /\ x' = AddPeriod(x)
    /\ prev' = loc.result
    /\ pc' = "call"
    /\ UNCHANGED <<z, loc, ub, ncalls, vx, vz, vertex, host>>

\* ComputeVertex with the first wavelength continuing the halving of the
\* others (128 for 256).
ComputeVertexHalving ==
    /\ vertex = NoVertex
    /\ \E overtone \in {RMul(RInt(64), NoiseResult(RMul(vx, <<1, 128>>),
                                                   RMul(vz, <<1, 128>>)))},
          octave1 \in {RMul(RInt(32), NoiseResult(RMul(vx, <<1, 64>>),
                                                  RMul(vz, <<1, 64>>)))},
          octave2 \in {RMul(RInt(16), NoiseResult(RMul(vx, <<1, 32>>),
                                                  RMul(vz, <<1, 32>>)))},
          octave3 \in {RMul(RInt(8), NoiseResult(RMul(vx, <<1, 16>>),
                                                 RMul(vz, <<1, 16>>)))},
          octave4 \in {RMul(RInt(4), NoiseResult(RMul(vx, <<1, 8>>),
                                                 RMul(vz, <<1, 8>>)))},
          octave5 \in {RMul(RInt(2), NoiseResult(RMul(vx, <<1, 4>>),
                                                 RMul(vz, <<1, 4>>)))} :
          \E s1 \in {RAdd(overtone, octave1)} :
          \E s2 \in {RAdd(s1, octave2)} :
          \E s3 \in {RAdd(s2, octave3)} :
          \E s4 \in {RAdd(s3, octave4)} :
          \E sum \in {RAdd(s4, octave5)} :
             vertex' =
                 [terms |-> <<overtone, octave1, octave2,
                              octave3, octave4, octave5>>,
                  sum |-> sum,
                  y |-> [pow |-> <<sum, <<12, 10>>>>, minus |-> 140]]
    /\ UNCHANGED <<x, z, pc, loc, ub, prev, ncalls, vx, vz, host>>

\* main's vertex loop body for the vertex at xPosition = vx,
\* zPosition = vz: the six terms, their sum and the height
\* pow(sum, 1.2f) - 140, the power kept symbolic as <<base, exponent>>.
ComputeVertex ==
    /\ vertex = NoVertex
    /\ \E overtone \in {RMul(RInt(64), NoiseResult(RMul(vx, <<1, 256>>),
                                                   RMul(vz, <<1, 256>>)))},
          octave1 \in {RMul(RInt(32), NoiseResult(RMul(vx, <<1, 64>>),
                                                  RMul(vz, <<1, 64>>)))},
          octave2 \in {RMul(RInt(16), NoiseResult(RMul(vx, <<1, 32>>),
                                                  RMul(vz, <<1, 32>>)))},
          octave3 \in {RMul(RInt(8), NoiseResult(RMul(vx, <<1, 16>>),
                                                 RMul(vz, <<1, 16>>)))},
          octave4 \in {RMul(RInt(4), NoiseResult(RMul(vx, <<1, 8>>),
                                                 RMul(vz, <<1, 8>>)))},
          octave5 \in {RMul(RInt(2), NoiseResult(RMul(vx, <<1, 4>>),
                                                 RMul(vz, <<1, 4>>)))} :
          \E s1 \in {RAdd(overtone, octave1)} :
          \E s2 \in {RAdd(s1, octave2)} :
          \E s3 \in {RAdd(s2, octave3)} :
          \E s4 \in {RAdd(s3, octave4)} :
          \E sum \in {RAdd(s4, octave5)} :
             vertex' =
                 [terms |-> <<overtone, octave1, octave2,
                              octave3, octave4, octave5>>,
                  sum |-> sum,
                  y |-> [pow |-> <<sum, <<12, 10>>>>, minus |-> 140]]
    /\ UNCHANGED <<x, z, pc, loc, ub, prev, ncalls, vx, vz, host>>

\* The W, S, A and D handlers of one frame, in the order of the source.
MoveNoFlagD(h, pressed, movementSpeed) ==
    LET w == IF "W" \in pressed THEN movementSpeed ELSE 0
        s == IF "S" \in pressed THEN movementSpeed ELSE 0
        a == IF "A" \in pressed THEN movementSpeed ELSE 0
        d == IF "D" \in pressed THEN movementSpeed ELSE 0
    IN  [xOffset |-> h.xOffset + w * Cos90(h.yaw) - s * Cos90(h.yaw)
                       + a * Cos90(h.yaw - 90) - d * Cos90(h.yaw - 90),
         zOffset |-> h.zOffset + w * Sin90(h.yaw) - s * Sin90(h.yaw)
                       + a * Sin90(h.yaw - 90) - d * Sin90(h.yaw - 90),
         updateVertices |-> h.updateVertices \/ pressed \cap {"W", "S", "A"} # {}]

Move(h, pressed, movementSpeed) ==
    LET w == IF "W" \in pressed THEN movementSpeed ELSE 0
        s == IF "S" \in pressed THEN movementSpeed ELSE 0
        a == IF "A" \in pressed THEN movementSpeed ELSE 0
        d == IF "D" \in pressed THEN movementSpeed ELSE 0
    IN  [xOffset |-> h.xOffset + w * Cos90(h.yaw) - s * Cos90(h.yaw)
                       + a * Cos90(h.yaw - 90) - d * Cos90(h.yaw - 90),
         zOffset |-> h.zOffset + w * Sin90(h.yaw) - s * Sin90(h.yaw)
                       + a * Sin90(h.yaw - 90) - d * Sin90(h.yaw - 90),
         updateVertices |-> h.updateVertices \/ pressed \cap MoveKeys # {}]

\* The pitch limits, in tenths of a degree.
ClampPitch(p) == IF p < -899 THEN -899 ELSE IF p > 899 THEN 899 ELSE p

\* One iteration of the frame loop: poll the keys, move, lift, turn,
\* recompute and upload the grid if updateVertices is set, draw.
Frame ==
    /\ host.frames < MaxFrames
    /\ \E pressed \in KeySets, ticks \in DeltaTicks :
         \E m \in {Move(host, pressed, 9 * ticks)} :
           LET turnSpeed == 90 * ticks
               lift == (IF "SPACE" \in pressed THEN 9 * ticks ELSE 0)
                         - (IF "LEFT_SHIFT" \in pressed THEN 9 * ticks ELSE 0)
               pitch == host.pitch
                         + (IF "UP" \in pressed THEN 10 * turnSpeed ELSE 0)
                         - (IF "DOWN" \in pressed THEN 10 * turnSpeed ELSE 0)
               yaw == host.yaw
                         + (IF "RIGHT" \in pressed THEN turnSpeed ELSE 0)
                         - (IF "LEFT" \in pressed THEN turnSpeed ELSE 0)
               vertices == IF m.updateVertices
                           THEN [v \in Grid |->
                                   HeightAt(v[1] + m.xOffset, v[2] + m.zOffset)]
                           ELSE host.vertices
               buffer == IF m.updateVertices THEN vertices ELSE host.buffer
           IN  host' = [xOffset |-> m.xOffset, zOffset |-> m.zOffset,
                        updateVertices |->
                            IF m.updateVertices THEN FALSE ELSE m.updateVertices,
                        vertices |-> vertices, buffer |-> buffer,
                        yaw |-> yaw, pitch |-> ClampPitch(pitch),
                        y |-> host.y + lift,
                        keys |-> pressed, frames |-> host.frames + 1,
                        uploads |-> host.uploads
                                      + (IF m.updateVertices THEN 1 ELSE 0),
                        drawn |-> buffer]
    /\ UNCHANGED <<x, z, pc, loc, ub, prev, ncalls, vx, vz, vertex>>

Next == NoiseValue \/ NextCall

NextHeight == ComputeVertex

NextHost == Frame

Spec == Init /\ [][Next]_vars

SpecLattice == InitLattice /\ [][Next]_vars

SpecHeight == InitHeight /\ [][NextHeight]_vars

SpecHost == InitHost /\ [][NextHost]_vars

(* ------------------------------ properties ---------------------------- *)

Zero == RInt(0)

One == RInt(1)

Half == <<1, 2>>

InUnit(r) == RLeq(Zero, r) /\ RLeq(r, One)

Hashes == 0..7

\* floor(f) as a mathematical integer, for |f| below 2^31.
MathFloor(f) == f.num \div f.den

\* floor(f) mod 256, the non-negative remainder.
FloorMod256(f) == IF f.scale = 256 THEN 0 ELSE MathFloor(f) % 256

\* The float f has its floor inside the int range.
FloorFits(f) ==
    IF f.scale = 256
    THEN f.num >= -(2 ^ 23) /\ f.num < 2 ^ 23
    ELSE TRUE

\* C1: every call of noiseValue returns a value in [0, 1], and for offsets
\* fx, fz in [0, 1) the blend of the four corner dot products stays in
\* [-1, 1] (the returned 0.5 * blend + 0.5 in [0, 1]) for every one of the
\* 8^4 combinations of corner gradient indices.  The combinations are run
\* through at the offsets of the first call into cell (0, 0), which take
\* every sampled pair of offsets.
C1_NoiseInUnitInterval ==
    pc = "done" =>
        /\ InUnit(loc.result)
        /\ (ncalls = 1 /\ loc.gridX = 0 /\ loc.gridZ = 0
            /\ RLess(loc.fx, One) /\ RLess(loc.fz, One)) =>
              \A h1 \in Hashes, h2 \in Hashes, h3 \in Hashes, h4 \in Hashes :
                  InUnit(Blend(h1, h2, h3, h4, loc.fx, loc.fz).result)

\* C1 witness: a call returned the upper end 1 of the interval, at the
\* centre of a cell.
C1_Witness ==
    /\ pc = "done"
    /\ loc.fx = Half /\ loc.fz = Half
    /\ \E h1 \in Hashes, h2 \in Hashes, h3 \in Hashes, h4 \in Hashes :
          Blend(h1, h2, h3, h4, loc.fx, loc.fz).result = One

\* C2: every call, whatever the magnitude of x and z, completes without an
\* undefined step and uses the lattice indices floor(x) mod 256 and
\* floor(z) mod 256.
C2_TotalOverAllInputs ==
    pc = "done" =>
        /\ ~ub
        /\ loc.gridX = FloorMod256(x)
        /\ loc.gridZ = FloorMod256(z)

\* x is negative and so close to zero that the float 1 + x is 1.
TinyNegative(f) ==
    /\ f.scale = 1
    /\ f.num < 0
    /\ f.den \div (2 ^ (FloatMantissaBits + 1)) >= -f.num

\* C3 as stated: when the floors of x and z fit an int, the indices are the
\* non-negative remainders floor mod 256 and the offsets lie in [0, 1).
C3_IndicesAndOffsetsHalfOpen ==
    (pc = "done" /\ FloorFits(x) /\ FloorFits(z)) =>
        /\ loc.gridX = FloorMod256(x) /\ loc.gridX \in 0..255
        /\ loc.gridZ = FloorMod256(z) /\ loc.gridZ \in 0..255
        /\ RLeq(Zero, loc.fx) /\ RLess(loc.fx, One)
        /\ RLeq(Zero, loc.fz) /\ RLess(loc.fz, One)

\* C3 amended: when the floors of x and z fit an int, the indices are the
\* non-negative remainders floor mod 256, and the offsets lie in [0, 1],
\* an offset being 1 exactly when its coordinate is negative and of
\* magnitude at most 2^-25.
C3_IndicesAndOffsetsClosed ==
    (pc = "done" /\ FloorFits(x) /\ FloorFits(z)) =>
        /\ loc.gridX = FloorMod256(x) /\ loc.gridX \in 0..255
        /\ loc.gridZ = FloorMod256(z) /\ loc.gridZ \in 0..255
        /\ RLeq(Zero, loc.fx) /\ RLeq(loc.fx, One)
        /\ RLeq(Zero, loc.fz) /\ RLeq(loc.fz, One)
        /\ (loc.fx = One <=> TinyNegative(x))
        /\ (loc.fz = One <=> TinyNegative(z))

\* C3 witness: a call with a negative x just below zero and a negative z
\* with an ordinary fractional part.
C3_Witness ==
    /\ pc = "done"
    /\ x.num < 0 /\ loc.gridX = 255 /\ loc.fx = One
    /\ z.num < 0 /\ z.den > 1 /\ RLess(loc.fz, One)

\* The shape of the table: 512 entries in 0..255, every value twice, the
\* first 256 entries a permutation of 0..255, the second half a copy.
TableShape ==
    /\ Len(permutationTable) = 512
    /\ \A i \in 0..511 : Perm(i) \in 0..255
    /\ \A val \in 0..255 : Cardinality({i \in 0..511 : Perm(i) = val}) = 2
    /\ \A val \in 0..255 : \E i \in 0..255 : Perm(i) = val
    /\ \A i \in 0..255 : Perm(i + 256) = Perm(i)

\* C4: the permutation table has exactly 512 entries, each in 0..255, each
\* value 0..255 twice, its first half a permutation of 0..255 and its
\* second half a copy of the first.
C4_TableIsDuplicatedPermutation == pc \in {"call", "done"} /\ TableShape

\* C4 witness: a call read both halves of the table (gridX + 1 = 256 in the
\* inner lookup, an outer index of 256 or more).
C4_Witness ==
    /\ pc = "done"
    /\ loc.gridX = 255
    /\ Perm(loc.gridX) + loc.gridZ >= 256

\* The hash of the specification for the corner (cornerX, cornerZ).
SpecHash(cornerX, cornerZ) ==
    BitAnd(Perm(Perm(cornerX % 256) + (cornerZ % 256)), 7)

\* C5: for every cell the selector of each of the four corners, looked up
\* without any wrap of gridX + 1 or gridZ + 1, is the hash
\* perm[perm[cornerX mod 256] + (cornerZ mod 256)] & 7.
C5_SelectorsMatchWrappedHash ==
    pc = "done" =>
        /\ BitAnd(loc.gradientBottomLeft, 7)
              = SpecHash(loc.gridX, loc.gridZ)
        /\ BitAnd(loc.gradientBottomRight, 7)
              = SpecHash(loc.gridX + 1, loc.gridZ)
        /\ BitAnd(loc.gradientTopLeft, 7)
              = SpecHash(loc.gridX, loc.gridZ + 1)
        /\ BitAnd(loc.gradientTopRight, 7)
              = SpecHash(loc.gridX + 1, loc.gridZ + 1)

\* C5 witness: the call was into the last cell of both axes, where both
\* corner coordinates reach 256.
C5_Witness ==
    /\ pc = "done"
    /\ loc.gridX = 255
    /\ loc.gridZ = 255

\* C6: a value returned on the left edge of a cell (fx = 0) is the value the
\* formula of the cell to its left, (gridX - 1) mod 256, takes on its right
\* edge (fx = 1), and a value returned on the bottom edge (fz = 0) is the
\* value the formula of the cell below takes on its top edge (fz = 1).
C6_NoJumpAcrossCellEdges ==
    pc = "done" =>
        /\ (loc.fx = Zero /\ RLess(loc.fz, One)) =>
              Interpolate((loc.gridX + 255) % 256, loc.gridZ,
                          One, loc.fz).result = loc.result
        /\ (loc.fz = Zero /\ RLess(loc.fx, One)) =>
              Interpolate(loc.gridX, (loc.gridZ + 255) % 256,
                          loc.fx, One).result = loc.result

\* C6 witness: a call on the left edge of cell 0, whose left neighbour is
\* cell 255, part of the way up the edge.
C6_Witness ==
    /\ pc = "done"
    /\ loc.gridX = 0
    /\ loc.fx = Zero
    /\ loc.fz = Half

\* C7: a second call one period (256) further along x returns the value of
\* the first.
C7_PeriodicInX ==
    (pc = "done" /\ ncalls >= 2) => loc.result = prev

\* C8: at integer arguments fade is taken at 0 (u = v = 0), the value is
\* 0.5 * d + 0.5 for d the dot product of the bottom-left gradient with
\* (0, 0), and the value is the same whatever the gradient indices of the
\* other three corners.
C8_LatticeAlignment ==
    (pc = "done" /\ x.den = 1 /\ z.den = 1) =>
        /\ loc.fx = Zero /\ loc.fz = Zero
        /\ loc.u = Zero /\ loc.v = Zero
        /\ loc.result =
              RAdd(RMul(Half, gradientDotDistance(
                                  BitAnd(loc.gradientBottomLeft, 7),
                                  Zero, Zero)),
                   Half)
        /\ \A h2 \in Hashes, h3 \in Hashes, h4 \in Hashes :
              Blend(BitAnd(loc.gradientBottomLeft, 7), h2, h3, h4,
                    loc.fx, loc.fz).result = loc.result

\* C8 witness: a call at integer arguments away from the origin.
C8_Witness ==
    /\ pc = "done"
    /\ x.den = 1 /\ z.den = 1
    /\ x.num = 255 /\ z.num = -257

Wavelengths == <<256, 64, 32, 16, 8, 4>>

Amplitudes == <<64, 32, 16, 8, 4, 2>>

RECURSIVE SumTerms(_, _)
SumTerms(t, k) == IF k = 0 THEN Zero ELSE RAdd(SumTerms(t, k - 1), t[k])

\* C9: the height of a vertex is made of exactly six terms
\* amplitude * sample(x / wavelength, z / wavelength), wavelengths
\* (256, 64, 32, 16, 8, 4) paired in order with amplitudes
\* (64, 32, 16, 8, 4, 2); the terms are summed, the sum is raised to the
\* power 1.2 and 140 is subtracted; at (0, 0) the sum is 63.
C9_SixOctaveHeight ==
    vertex # NoVertex =>
        /\ Len(vertex.terms) = 6
        /\ \A k \in 1..6 :
              vertex.terms[k] =
                  RMul(RInt(Amplitudes[k]),
                       NoiseResult(RMul(vx, <<1, Wavelengths[k]>>),
                                   RMul(vz, <<1, Wavelengths[k]>>)))
        /\ vertex.sum = SumTerms(vertex.terms, 6)
        /\ vertex.y.pow[1] = vertex.sum
        /\ Norm(vertex.y.pow[2][1], vertex.y.pow[2][2]) = <<6, 5>>
        /\ vertex.y.minus = 140
        /\ (vx = Zero /\ vz = Zero) => vertex.sum = RInt(63)

\* C9 witness: the vertex at (0, 0) has its height, from the sum 63.
C9_Witness ==
    /\ vertex # NoVertex
    /\ vx = Zero /\ vz = Zero
    /\ vertex.sum = RInt(63)

\* 6t^5 - 15t^4 + 10t^3, term by term.
Quintic(t) ==
    LET t3 == RMul(RMul(t, t), t)
        t4 == RMul(t3, t)
        t5 == RMul(t4, t)
    IN RAdd(RSub(RMul(RInt(6), t5), RMul(RInt(15), t4)), RMul(RInt(10), t3))

\* C10: fade, evaluated in Horner form, is the quintic
\* 6t^5 - 15t^4 + 10t^3 at every argument (the offsets of a call, and the
\* same offsets moved by one to either side), with fade(0) = 0,
\* fade(1) = 1 and fade(0.5) = 0.5.
C10_FadeIsQuintic ==
    pc = "done" =>
        /\ loc.u = Quintic(loc.fx)
        /\ loc.v = Quintic(loc.fz)
        /\ \A t \in {loc.fx, loc.fz} :
              /\ fade(RSub(t, One)) = Quintic(RSub(t, One))
              /\ fade(RAdd(t, One)) = Quintic(RAdd(t, One))
              /\ (t = Zero => fade(t) = Zero)
              /\ (t = One => fade(t) = One)
              /\ (t = Half => fade(t) = Half)

\* C10 witness: a call whose offsets are 0.5 and 1, fade applied to both.
C10_Witness ==
    /\ pc = "done"
    /\ loc.fx = Half /\ loc.u = Half
    /\ loc.fz = One /\ loc.v = One

\* The eight gradient vectors, for hashes 0..7 in order.
Gradients ==
    <<<<1, 1>>, <<-1, 1>>, <<1, -1>>, <<-1, -1>>,
      <<1, 0>>, <<0, 1>>, <<-1, 0>>, <<0, -1>>>>

\* The dot product of the vector of hash h with the offset (a, b).
GradientDot(h, a, b) ==
    RAdd(RMul(RInt(Gradients[h + 1][1]), a), RMul(RInt(Gradients[h + 1][2]), b))

\* C11: for every hash h in 0..7, gradientDotDistance(h, a, b) is the dot
\* product of (a, b) with the h-th vector of the list (1,1), (-1,1), (1,-1),
\* (-1,-1), (1,0), (0,1), (-1,0), (0,-1), at each of the four offset pairs
\* of a call; and the dot product kept for each corner is the one of its
\* own hash with its own offset: (fx, fz) bottom-left, (fx-1, fz)
\* bottom-right, (fx, fz-1) top-left, (fx-1, fz-1) top-right.
C11_GradientDotProducts ==
    pc = "done" =>
        /\ \A h \in Hashes :
           \A a \in {loc.fx, RSub(loc.fx, One)} :
           \A b \in {loc.fz, RSub(loc.fz, One)} :
              gradientDotDistance(h, a, b) = GradientDot(h, a, b)
        /\ loc.dotBottomLeft =
              GradientDot(BitAnd(loc.gradientBottomLeft, 7), loc.fx, loc.fz)
        /\ loc.dotBottomRight =
              GradientDot(BitAnd(loc.gradientBottomRight, 7),
                          RSub(loc.fx, One), loc.fz)
        /\ loc.dotTopLeft =
              GradientDot(BitAnd(loc.gradientTopLeft, 7),
                          loc.fx, RSub(loc.fz, One))
        /\ loc.dotTopRight =
              GradientDot(BitAnd(loc.gradientTopRight, 7),
                          RSub(loc.fx, One), RSub(loc.fz, One))

\* C11 witness: a call with distinct non-zero offsets in a cell whose four
\* corners have four different hashes, so the four dot products tell the
\* corners and the vectors apart.
C11_Witness ==
    /\ pc = "done"
    /\ loc.fx # Zero /\ loc.fz # Zero /\ loc.fx # loc.fz
    /\ Cardinality({BitAnd(loc.gradientBottomLeft, 7),
                    BitAnd(loc.gradientBottomRight, 7),
                    BitAnd(loc.gradientTopLeft, 7),
                    BitAnd(loc.gradientTopRight, 7)}) = 4

\* i is an index of the array permutationTable.
InTable(i) == i + 1 \in DOMAIN permutationTable

\* Every table index noiseValue forms for the cell (gridX, gridZ) lies in
\* the table, and every masked hash it passes on is in 0..7.
LookupsInBounds(gridX, gridZ) ==
    /\ gridX \in 0..255 /\ gridZ \in 0..255
    /\ InTable(gridX) /\ InTable(gridX + 1)
    /\ InTable(Perm(gridX) + gridZ)
    /\ InTable(Perm(gridX + 1) + gridZ)
    /\ InTable(Perm(gridX) + gridZ + 1)
    /\ InTable(Perm(gridX + 1) + gridZ + 1)
    /\ BitAnd(Perm(Perm(gridX) + gridZ), 7) \in Hashes
    /\ BitAnd(Perm(Perm(gridX + 1) + gridZ), 7) \in Hashes
    /\ BitAnd(Perm(Perm(gridX) + gridZ + 1), 7) \in Hashes
    /\ BitAnd(Perm(Perm(gridX + 1) + gridZ + 1), 7) \in Hashes

\* C13: in every cell gridX, gridZ in 0..255 the inner indices gridX and
\* gridX + 1 and the outer indices permutationTable[..] + gridZ and
\* permutationTable[..] + gridZ + 1 lie in 0..511, and each masked hash
\* handed to gradientDotDistance is in 0..7: so for a call about to be made
\* (whatever the conversions yield) and for the call just returned.
C13_TableAccessesInBounds ==
    /\ pc = "call" =>
          \A ix \in FloatToInt(FloorF(x)), iz \in FloatToInt(FloorF(z)) :
              LookupsInBounds(BitAnd(ix, 255), BitAnd(iz, 255))
    /\ pc = "done" =>
          /\ LookupsInBounds(loc.gridX, loc.gridZ)
          /\ \A g \in {loc.gradientBottomLeft, loc.gradientBottomRight,
                       loc.gradientTopLeft, loc.gradientTopRight} :
                g \in 0..255 /\ BitAnd(g, 7) \in Hashes

\* C13 witness: a call whose top-right lookup read the last entry of the
\* table, index 511.
C13_Witness ==
    /\ pc = "done"
    /\ loc.gridZ = 255
    /\ Perm(loc.gridX + 1) + loc.gridZ + 1 = 511

\* The sum of the six amplitudes, 64 + 32 + 16 + 8 + 4 + 2.
AmplitudeSum == SumTerms(<<RInt(64), RInt(32), RInt(16),
                           RInt(8), RInt(4), RInt(2)>>, 6)

\* C14: the six-octave sum of every vertex, the base handed to
\* pow(., 1.2), lies in [0, 126], so the base is never negative.
C14_PowBaseInRange ==
    vertex # NoVertex =>
        /\ AmplitudeSum = RInt(126)
        /\ RLeq(Zero, vertex.y.pow[1])
        /\ RLeq(vertex.y.pow[1], AmplitudeSum)
        /\ \A k \in 1..6 :
              /\ RLeq(Zero, vertex.terms[k])
              /\ RLeq(vertex.terms[k], RInt(Amplitudes[k]))

\* C14 witness: a vertex away from the lattice points of every octave got
\* its height, from a sum strictly inside the range and off its midpoint.
C14_Witness ==
    /\ vertex # NoVertex
    /\ vx[2] = 3 /\ vz[2] = 3
    /\ RLess(Zero, vertex.y.pow[1])
    /\ RLess(vertex.y.pow[1], AmplitudeSum)
    /\ vertex.y.pow[1] # RInt(63)

\* The heights the grid loop computes from the offsets of host state h.
CurrentHeights(h) == [v \in Grid |-> HeightAt(v[1] + h.xOffset, v[2] + h.zOffset)]

\* After every frame the flag is clear and what was drawn, what the buffer
\* holds and what the vertex array holds are the heights of the current offsets.
DrawnIsCurrent ==
    /\ host.updateVertices <=> host.frames = 0
    /\ host.frames >= 1 =>
          /\ host.drawn = CurrentHeights(host)
          /\ host.buffer = host.drawn
          /\ host.vertices = host.drawn
          /\ host.uploads >= 1

\* A frame recomputes and uploads the grid exactly when it is the first one
\* or polls a movement key; any other frame keeps heights and offsets.
RecomputeWhenMoved ==
    LET recomputed == host'.uploads = host.uploads + 1
        moved == host'.keys \cap MoveKeys # {}
    IN  /\ host'.frames = host.frames + 1
        /\ recomputed \/ host'.uploads = host.uploads
        /\ recomputed <=> (host.frames = 0 \/ moved)
        /\ recomputed => host'.vertices = CurrentHeights(host')
        /\ ~recomputed =>
              /\ host'.vertices = host.vertices
              /\ host'.buffer = host.buffer
              /\ host'.drawn = host.drawn
        /\ ~moved =>
              /\ host'.xOffset = host.xOffset
              /\ host'.zOffset = host.zOffset
        /\ (~moved /\ host.frames >= 1) =>
              /\ host'.vertices = host.vertices
              /\ host'.drawn = host.drawn

\* C12: the frame loop recomputes the vertex grid exactly when updateVertices
\* is set (the first frame and every frame in which W, A, S or D is pressed),
\* clears the flag after the recompute, draws heights that are those of the
\* current offsets, and leaves heights and offsets alone in frames that poll
\* only lift or turn keys.
C12_RecomputeOnlyWhenDirty == []DrawnIsCurrent /\ [][RecomputeWhenMoved]_vars

\* Three frames: the first recomputed, one moved the grid, the last one only
\* lifted or turned the camera and drew the heights of the moved grid.
C12_Witness ==
    /\ host.frames = 3
    /\ host.uploads = 2
    /\ host.keys # {}
    /\ host.keys \subseteq LiftKeys \cup TurnKeys
    /\ host.xOffset # 0
    /\ host.drawn = CurrentHeights(host)

====
